---- MODULE Spec2Model ----
(***************************************************************************)
(* Model of src/llms/real_time_retrieval_system_for_social_media_data/     *)
(* src/embeddings.py: the two process-wide model singletons                *)
(* EmbeddingModelSingleton (the Encoder) and CrossEncoderModelSingleton    *)
(* (the Relevance Scorer), called by concurrent callers.                   *)
(*                                                                         *)
(* The metaclass SingletonMeta is imported from src.base, whose source is  *)
(* not part of the files modelled here; it is modelled from the            *)
(* specification (one instance per class, built under one lock).           *)
(***************************************************************************)
EXTENDS Integers, Sequences, FiniteSets

(***************************************************************************)
(* Bounds of the model.                                                    *)
(***************************************************************************)
\* the longest text has MaxTextLen words
MaxTextLen == 1
\* score() is called with 0..MaxPairs pairs
MaxPairs == 2
\* cap on the number of model objects ever built (guards the heap)
MaxObjects == 4

Callers == {"c1", "c2"}
NoCaller == "nobody"

Types == {"Encoder", "Scorer"}

\* The value None of Python and the null object reference.
None == "None"
Null == 0

(***************************************************************************)
(* The environment: the pretrained models that exist, their hidden width,  *)
(* the devices of the machine.  A model identifier outside the known ones or*)
(* a device outside Devices makes the library's load raise.                *)
(***************************************************************************)
KnownEncoders == {"bert-a", "bert-b"}
KnownCrossEncoders == {"ce-a", "ce-b"}
Devices == {"cpu", "cuda"}

\* hidden width of the last layer of each bi-encoder
HiddenWidth(m) == IF m = "bert-a" THEN 2 ELSE 3

\* a text is its number of word tokens, or Malformed (the tokenizer rejects it)
Malformed == -1
Texts == {0, MaxTextLen, Malformed}

\* the pair lists given to score(): up to MaxPairs pairs, neighbours different
Pair(k) == IF k % 2 = 0 THEN <<"q", "d1">> ELSE <<"q", "d2">>
PairLists ==
    {<<>>} \cup { [i \in 1..n |-> Pair(i + first)] : n \in 1..MaxPairs, first \in 0..1 }

(***************************************************************************)
(* Construction requests the callers make (the arguments of the two        *)
(* constructors).  The first of each is the settings default.              *)
(***************************************************************************)
EncoderArgs ==
    { [model_id |-> "bert-a", embedding_size |-> 2, max_input_length |-> 3,
       device |-> "cpu", cache_dir |-> None],
      [model_id |-> "bert-b", embedding_size |-> 4, max_input_length |-> 2,
       device |-> "cuda", cache_dir |-> "/models"],
      [model_id |-> "missing", embedding_size |-> 2, max_input_length |-> 3,
       device |-> "cpu", cache_dir |-> None] }

ScorerArgs ==
    { [model_id |-> "ce-a", device |-> "cpu"],
      [model_id |-> "ce-b", device |-> "cuda"],
      [model_id |-> "ce-a", device |-> "tpu"] }

ArgsOf(T) == IF T = "Encoder" THEN EncoderArgs ELSE ScorerArgs

(***************************************************************************)
(* Values: numpy arrays and Python lists.  data is the row-major content.  *)
(***************************************************************************)
NdArray(shape, data) == [kind |-> "ndarray", shape |-> shape, data |-> data]
PyList(data) == [kind |-> "list", shape |-> <<Len(data)>>, data |-> data]
NoValue == [kind |-> "none", shape |-> <<>>, data |-> <<>>]

\* number of elements of a value
Size(v) == Len(v.data)

\* ndarray.flatten(): one dimension, same content
Flatten(a) == NdArray(<<Len(a.data)>>, a.data)

\* ndarray.tolist() of a one-dimensional array: a list of its elements
ToList(a) == PyList([i \in 1..a.shape[1] |-> a.data[i]])

\* [] if to_list else np.array([])
EmptyResult(to_list) == IF to_list THEN PyList(<<>>) ELSE NdArray(<<0>>, <<>>)

(***************************************************************************)
(* EmbeddingModelSingleton.__init__ and its read-only properties.          *)
(***************************************************************************)
\* AutoTokenizer.from_pretrained / AutoModel.from_pretrained(...).to(device)
EncoderLoadable(a) == a.model_id \in KnownEncoders /\ a.device \in Devices

EmbeddingInit_defaultId(a) ==
    [type             |-> "Encoder",
     model_id         |-> "bert-a",
     embedding_size   |-> a.embedding_size,
     device           |-> a.device,
     max_input_length |-> a.max_input_length,
     tokenizer        |-> "bert-a",
     model            |-> [model_id |-> "bert-a", device |-> a.device,
                           training |-> FALSE],
     args             |-> a]

\* the fields of the instance after __init__(a); args is the history of
\* what __init__ was called with
EmbeddingInit(a) ==
    [type             |-> "Encoder",
     model_id         |-> a.model_id,
     embedding_size   |-> a.embedding_size,
     device           |-> a.device,
     max_input_length |-> a.max_input_length,
     tokenizer        |-> a.model_id,
     model            |-> [model_id |-> a.model_id, device |-> a.device,
                           training |-> FALSE],
     args             |-> a]

model_id(self) == self.model_id
embedding_size(self) == self.embedding_size
max_input_length(self) == self.max_input_length
tokenizer(self) == self.tokenizer

(***************************************************************************)
(* CrossEncoderModelSingleton.__init__                                     *)
(***************************************************************************)
ScorerLoadable(a) == a.model_id \in KnownCrossEncoders /\ a.device \in Devices

CrossEncoderInit(a) ==
    [type             |-> "Scorer",
     model_id         |-> a.model_id,
     embedding_size   |-> 0,
     device           |-> a.device,
     max_input_length |-> 0,
     tokenizer        |-> None,
     model            |-> [model_id |-> a.model_id, device |-> a.device,
                           training |-> FALSE],
     args             |-> a]

Loadable(T, a) == IF T = "Encoder" THEN EncoderLoadable(a) ELSE ScorerLoadable(a)
InitOf(T, a) == IF T = "Encoder" THEN EmbeddingInit(a) ELSE CrossEncoderInit(a)

(***************************************************************************)
(* EmbeddingModelSingleton.__call__: tokenizer, forward pass, pooling.     *)
(***************************************************************************)
\* the records given to logger.error: traceback.format_exc() and the message
Traceback(stage) ==
    [kind |-> "traceback", stage |-> stage, text |-> -2, model_id |-> ""]
Message(stage, text, m) ==
    [kind |-> "message", stage |-> stage, text |-> text, model_id |-> m]

\* self._tokenizer(text, padding=True, truncation=True, max_length=...):
\* [CLS] words [SEP], cut to max_length tokens; one text, so no padding
TokenCount(self, text) ==
    IF text + 2 > self.max_input_length THEN self.max_input_length ELSE text + 2

\* the two logger.error calls of the tokenization handler
TokenizeErrorRecords_swapped(self, text) ==
    << Message("tokenize", text, ""), Traceback("tokenize") >>

TokenizeErrorRecords(self, text) ==
    << Traceback("tokenize"), Message("tokenize", text, "") >>

\* the two logger.error calls of the forward-pass handler
ForwardErrorRecords(self, text) ==
    << Traceback("forward"), Message("forward", text, self.model_id) >>

\* the model's hidden state of token p, component j: a fixed function of the
\* model and the tokenized text
HiddenValue(m, text, tokens, p, j) ==
    ((IF m = "bert-a" THEN 1 ELSE 2) + text + tokens + 2 * p + j) % 5

\* self._model(**tokenized_text).last_hidden_state: shape (1, tokens, width)
LastHiddenState(self, text, tokens) ==
    LET W == HiddenWidth(self.model.model_id)
    IN  NdArray(<<1, tokens, W>>,
                [k \in 1..(tokens * W) |->
                    HiddenValue(self.model.model_id, text, tokens,
                                ((k - 1) \div W) + 1, ((k - 1) % W) + 1)])

\* t[:, 0, :] : the first token's vector of every batch row
FirstToken(t) ==
    LET B == t.shape[1]
        P == t.shape[2]
        W == t.shape[3]
    IN  NdArray(<<B, W>>,
                [i \in 1..(B * W) |->
                    t.data[((i - 1) \div W) * P * W + ((i - 1) % W) + 1]])

\* result.last_hidden_state[:, 0, :].cpu().detach().numpy(), then
\* .flatten().tolist() if to_list
Embeddings(t, to_list) ==
    IF to_list THEN ToList(Flatten(FirstToken(t))) ELSE FirstToken(t)

(***************************************************************************)
(* CrossEncoderModelSingleton.__call__                                     *)
(***************************************************************************)
\* the pairwise model's score of one pair
ModelScore(m, pair) ==
    (IF m = "ce-a" THEN 10 ELSE 20) + (IF pair[2] = "d1" THEN 7 ELSE 3)

\* self._model.predict(pairs): one score per pair, in the order of the input
Predict(self, pairs) ==
    NdArray(<<Len(pairs)>>,
            [i \in 1..Len(pairs) |-> ModelScore(self.model.model_id, pairs[i])])

CrossEncoderCall_reversed(self, pairs) ==
    LET scores == ToList(Predict(self, pairs)).data
    IN  PyList([i \in 1..Len(scores) |-> scores[Len(scores) + 1 - i]])

\* scores = self._model.predict(pairs); return scores.tolist()
CrossEncoderCall(self, pairs) == ToList(Predict(self, pairs))

\* class X(metaclass=SingletonMeta)
Metaclass_plainEncoder(T) == IF T = "Encoder" THEN "type" ELSE "SingletonMeta"

Metaclass_plainScorer(T) == IF T = "Scorer" THEN "type" ELSE "SingletonMeta"

Metaclass(T) == "SingletonMeta"

(***************************************************************************)
(* State.                                                                  *)
(***************************************************************************)
VARIABLES
    objects,     \* the heap: every model object built so far, by reference
    instances,   \* SingletonMeta._instances: class -> reference (Null: absent)
    lock,        \* SingletonMeta._lock: the caller holding it, or NoCaller
    pc,          \* where each caller is
    frame,       \* the arguments and locals of each caller's current/last call
    held,        \* the references each caller got from its constructor calls
    outcome,     \* how each caller's last call ended
    retval,      \* what it returned
    emitted      \* the records it passed to logger.error, in order

vars == <<objects, instances, lock, pc, frame, held, outcome, retval, emitted>>

NoFrame ==
    [op |-> "none", type |-> "none", args |-> None, new |-> Null,
     self |-> Null, text |-> 0, to_list |-> TRUE, pairs |-> <<>>,
     fault |-> "none", raced |-> FALSE, after |-> FALSE]
\* raced: the construction request overlapped another first request for the
\* same class; after: the call began after a call on the same object had
\* failed (kept for the calls that themselves meet no fault)

\* caller d is inside a construction request for T that began when T had
\* no instance
InFirstConstruction(d, T) ==
    /\ pc[d] \in {"meta_lock", "init", "meta_store"}
    /\ frame[d].type = T
    /\ instances[T] = Null

\* caller d's last call on object self ended in the given fault
LastFailedOn(d, self, fault) ==
    /\ pc[d] = "idle"
    /\ frame[d].self = self
    /\ frame[d].fault = fault

Init ==
    /\ objects = <<>>
    /\ instances = [T \in Types |-> Null]
    /\ lock = NoCaller
    /\ pc = [c \in Callers |-> "idle"]
    /\ frame = [c \in Callers |-> NoFrame]
    /\ held = [c \in Callers |-> [T \in Types |-> Null]]
    /\ outcome = [c \in Callers |-> "none"]
    /\ retval = [c \in Callers |-> NoValue]
    /\ emitted = [c \in Callers |-> <<>>]

\* a call is under way: nothing returned, nothing logged yet
Running(c, at) ==
    /\ pc' = [pc EXCEPT ![c] = at]
    /\ outcome' = [outcome EXCEPT ![c] = "none"]
    /\ retval' = [retval EXCEPT ![c] = NoValue]
    /\ emitted' = [emitted EXCEPT ![c] = <<>>]

\* a call ends: the caller is idle again with the call's outcome
Finish(c, how, value, records) ==
    /\ pc' = [pc EXCEPT ![c] = "idle"]
    /\ outcome' = [outcome EXCEPT ![c] = how]
    /\ retval' = [retval EXCEPT ![c] = value]
    /\ emitted' = [emitted EXCEPT ![c] = records]

(***************************************************************************)
(* Construction: X(args) runs the metaclass's __call__.                    *)
(***************************************************************************)
\* a caller evaluates EmbeddingModelSingleton(...) or
\* CrossEncoderModelSingleton(...)
Construct(c, T, a) ==
    /\ pc[c] = "idle"
    /\ LET racing == {d \in Callers \ {c} : InFirstConstruction(d, T)}
       IN  frame' = [d \in Callers |->
                        IF d = c
                        THEN [NoFrame EXCEPT !.op = "construct", !.type = T,
                                             !.args = a, !.raced = racing # {}]
                        ELSE IF d \in racing
                             THEN [frame[d] EXCEPT !.raced = TRUE]
                             ELSE frame[d]]
    /\ Running(c, IF Metaclass(T) = "SingletonMeta" THEN "meta_lock" ELSE "init")
    /\ UNCHANGED <<objects, instances, lock, held>>

\* with cls._lock: if cls not in cls._instances: ... ; return cls._instances[cls]
\* (the lock is taken; when the class has its instance the block is left at
\* once and the instance returned, otherwise __init__ runs under the lock)
MetaEnter(c) ==
    /\ pc[c] = "meta_lock"
    /\ lock = NoCaller
    /\ LET T == frame[c].type
       IN  IF instances[T] = Null
           THEN /\ lock' = c
                /\ pc' = [pc EXCEPT ![c] = "init"]
                /\ UNCHANGED <<held, outcome, retval, emitted>>
           ELSE /\ held' = [held EXCEPT ![c][T] = instances[T]]
                /\ Finish(c, "returned", NoValue, <<>>)
                /\ UNCHANGED lock
    /\ UNCHANGED <<objects, instances, frame>>

\* __init__ of the class; a load the library refuses raises out of the
\* constructor call (and out of the with block, releasing the lock)
RunInit(c) ==
    /\ pc[c] = "init"
    /\ LET T == frame[c].type
           a == frame[c].args
       IN  IF ~Loadable(T, a)
           THEN /\ Finish(c, "raised", NoValue, <<>>)
                /\ lock' = IF lock = c THEN NoCaller ELSE lock
                /\ UNCHANGED <<objects, frame, held>>
           ELSE /\ Len(objects) < MaxObjects
                /\ objects' = Append(objects, InitOf(T, a))
                /\ IF Metaclass(T) = "SingletonMeta"
                   THEN /\ frame' = [frame EXCEPT ![c].new = Len(objects) + 1]
                        /\ pc' = [pc EXCEPT ![c] = "meta_store"]
                        /\ UNCHANGED <<held, outcome, retval, emitted>>
                   ELSE /\ held' = [held EXCEPT ![c][T] = Len(objects) + 1]
                        /\ Finish(c, "returned", NoValue, <<>>)
                        /\ UNCHANGED frame
                /\ UNCHANGED lock
    /\ UNCHANGED instances

\* cls._instances[cls] = instance; leave the with block; return the entry
MetaStore(c) ==
    /\ pc[c] = "meta_store"
    /\ LET T == frame[c].type
       IN  /\ instances' = [instances EXCEPT ![T] = frame[c].new]
           /\ held' = [held EXCEPT ![c][T] = frame[c].new]
    /\ lock' = IF lock = c THEN NoCaller ELSE lock
    /\ frame' = [frame EXCEPT ![c].new = Null]
    /\ Finish(c, "returned", NoValue, <<>>)
    /\ UNCHANGED objects

(***************************************************************************)
(* encode: EmbeddingModelSingleton.__call__(input_text, to_list)           *)
(***************************************************************************)
\* except Exception of the tokenization try
TokenizeFailed_dropsTokenizer(c, text, to_list) ==
    /\ Finish(c, "returned", EmptyResult(to_list),
              TokenizeErrorRecords(objects[held[c]["Encoder"]], text))
    /\ objects' = [objects EXCEPT ![held[c]["Encoder"]].tokenizer = None]
    /\ UNCHANGED <<instances, lock, held>>

TokenizeFailed(c, text, to_list) ==
    /\ Finish(c, "returned", EmptyResult(to_list),
              TokenizeErrorRecords(objects[held[c]["Encoder"]], text))
    /\ UNCHANGED <<objects, instances, lock, held>>

\* the call and its first try block: tokenize and move the tokens to the
\* device (moveFails: the device refuses the move); then the forward pass
\* is entered
EncodeTokenize(c, text, to_list, moveFails) ==
    /\ pc[c] = "idle"
    /\ held[c]["Encoder"] # Null
    /\ LET self == objects[held[c]["Encoder"]]
           fails == text = Malformed \/ self.tokenizer = None \/ moveFails
       IN  /\ frame' = [frame EXCEPT ![c] =
                  [NoFrame EXCEPT !.op = "encode", !.self = held[c]["Encoder"],
                                  !.text = text, !.to_list = to_list,
                                  !.after = ~fails /\ \E d \in Callers :
                                      LastFailedOn(d, held[c]["Encoder"], "tokenize"),
                                  !.fault = IF fails THEN "tokenize" ELSE "none"]]
           /\ IF fails
              THEN TokenizeFailed(c, text, to_list)
              ELSE /\ Running(c, "forward")
                   /\ UNCHANGED <<objects, instances, lock, held>>

\* except Exception of the forward-pass try
ForwardFailed(c) ==
    Finish(c, "returned", EmptyResult(frame[c].to_list),
           ForwardErrorRecords(objects[frame[c].self], frame[c].text))

\* the forward pass returns or raises (fault = "forward"); after it the
\* pooling, the move to the host and the conversion, with no try block
\* around them (fault = "pooling": one of them raises)
EncodeForward(c, fault) ==
    /\ pc[c] = "forward"
    /\ frame' = [frame EXCEPT ![c].fault = fault,
                               ![c].after = @ /\ fault = "none"]
    /\ LET self == objects[frame[c].self]
           text == frame[c].text
       IN  CASE fault = "forward" -> ForwardFailed(c)
             [] fault = "pooling" -> Finish(c, "raised", NoValue, <<>>)
             [] OTHER ->
                  Finish(c, "returned",
                         Embeddings(LastHiddenState(self, text, TokenCount(self, text)),
                                    frame[c].to_list),
                         <<>>)
    /\ UNCHANGED <<objects, instances, lock, held>>

(***************************************************************************)
(* score: CrossEncoderModelSingleton.__call__(pairs)                       *)
(***************************************************************************)
\* predict raises: nothing catches it
ScoreFailed_swallowed(c) ==
    Finish(c, "returned", PyList(<<>>), <<>>)

ScoreFailed(c) ==
    Finish(c, "raised", NoValue, <<>>)

Score(c, pairs, fails) ==
    /\ pc[c] = "idle"
    /\ held[c]["Scorer"] # Null
    /\ frame' = [frame EXCEPT ![c] =
           [NoFrame EXCEPT !.op = "score", !.self = held[c]["Scorer"],
                           !.pairs = pairs,
                           !.after = ~fails /\ \E d \in Callers :
                               LastFailedOn(d, held[c]["Scorer"], "predict"),
                           !.fault = IF fails THEN "predict" ELSE "none"]]
    /\ IF fails
       THEN ScoreFailed(c)
       ELSE Finish(c, "returned",
                   CrossEncoderCall(objects[held[c]["Scorer"]], pairs), <<>>)
    /\ UNCHANGED <<objects, instances, lock, held>>

Next ==
    \E c \in Callers :
        \/ \E T \in Types : \E a \in ArgsOf(T) : Construct(c, T, a)
        \/ MetaEnter(c)
        \/ RunInit(c)
        \/ MetaStore(c)
        \/ \E text \in Texts : \E to_list, moveFails \in BOOLEAN :
               EncodeTokenize(c, text, to_list, moveFails)
        \/ \E fault \in {"none", "forward", "pooling"} : EncodeForward(c, fault)
        \/ \E pairs \in PairLists : \E fails \in BOOLEAN : Score(c, pairs, fails)

Spec == Init /\ [][Next]_vars

(***************************************************************************)
(* Vocabulary of the properties.                                           *)
(***************************************************************************)
\* caller c's last call was op and has ended
Done(c, op) == pc[c] = "idle" /\ frame[c].op = op /\ outcome[c] # "none"

\* the objects of class T built so far, the number of model loads of T,
\* and the first of them
Built(T) == {i \in 1..Len(objects) : objects[i].type = T}
Loads(T) == Cardinality(Built(T))
Original(T) == CHOOSE i \in Built(T) : \A j \in Built(T) : i <= j

\* the object an encode or score call ran on
SelfOf(c) == objects[frame[c].self]

\* caller c's racing first construction request for T has ended
RacedDone(c, T) == Done(c, "construct") /\ frame[c].type = T /\ frame[c].raced

(***************************************************************************)
(* C1                                                                      *)
(***************************************************************************)
\* C1: every Encoder construction request that returns, whatever its
\* arguments, returns the first Encoder built; that object's model_id,
\* embedding_size and max_input_length are the arguments of the first
\* construction, and the Encoder model is loaded once only.
C1_SingletonStability ==
    /\ Loads("Encoder") <= 1
    /\ \A c \in Callers :
          (Done(c, "construct") /\ frame[c].type = "Encoder"
              /\ outcome[c] = "returned") =>
             /\ held[c]["Encoder"] # Null
             /\ held[c]["Encoder"] = Original("Encoder")
             /\ held[c]["Encoder"] = instances["Encoder"]
             /\ LET o == objects[held[c]["Encoder"]]
                IN  /\ model_id(o) = o.args.model_id
                    /\ embedding_size(o) = o.args.embedding_size
                    /\ max_input_length(o) = o.args.max_input_length

\* a request with another model id, size, length and device has returned
\* the existing instance
C1_Witness ==
    \E c \in Callers :
        /\ Done(c, "construct") /\ frame[c].type = "Encoder"
        /\ outcome[c] = "returned"
        /\ LET o == objects[held[c]["Encoder"]]
               a == frame[c].args
           IN  /\ a.model_id # model_id(o)
               /\ a.embedding_size # embedding_size(o)
               /\ a.max_input_length # max_input_length(o)
               /\ a.device # o.device

C3_EncodeNeverRaises ==
    \A c \in Callers :
        (Done(c, "encode") /\ frame[c].fault \in {"tokenize", "forward", "pooling"}) =>
            /\ outcome[c] = "returned"
            /\ retval[c] = EmptyResult(frame[c].to_list)

(***************************************************************************)
(* C4                                                                      *)
(***************************************************************************)
\* C4: every value encode returns has embedding_size elements or none, for
\* both representations and every configuration.
C4_LengthIsEmbeddingSizeOrZero ==
    \A c \in Callers :
        (Done(c, "encode") /\ outcome[c] = "returned") =>
            Size(retval[c]) \in {0, embedding_size(SelfOf(c))}

(***************************************************************************)
(* C5                                                                      *)
(***************************************************************************)
\* C5: an encode call that ends in a handled failure has emitted exactly
\* two records, the traceback first and then the message naming the input
\* text (and the model id when the forward pass failed); an encode call
\* that succeeds has emitted none.
C5_TwoRecordsInOrder ==
    \A c \in Callers :
        Done(c, "encode") =>
            /\ frame[c].fault \in {"tokenize", "forward"} =>
                  /\ outcome[c] = "returned"
                  /\ Len(emitted[c]) = 2
                  /\ emitted[c][1].kind = "traceback"
                  /\ emitted[c][2].kind = "message"
                  /\ emitted[c][2].text = frame[c].text
                  /\ frame[c].fault = "forward" =>
                        emitted[c][2].model_id = model_id(SelfOf(c))
            /\ frame[c].fault = "none" => emitted[c] = <<>>

\* one call has ended in the tokenization handler and another in the
\* forward-pass handler, each with its two records
C5_Witness ==
    \E c, d \in Callers :
        /\ Done(c, "encode") /\ frame[c].fault = "tokenize"
        /\ Done(d, "encode") /\ frame[d].fault = "forward"
        /\ Len(emitted[c]) = 2 /\ Len(emitted[d]) = 2

(***************************************************************************)
(* C6                                                                      *)
(***************************************************************************)
\* C6: encode changes nothing of the instance: every object is as its
\* constructor left it, and an encode call with valid input that began
\* after a call failed in tokenization on the same instance returns the
\* model's full vector.
C6_EncodeChangesNothing ==
    /\ \A i \in 1..Len(objects) :
          objects[i] = InitOf(objects[i].type, objects[i].args)
    /\ \A c \in Callers :
          (Done(c, "encode") /\ frame[c].fault = "none" /\ frame[c].after) =>
             /\ outcome[c] = "returned"
             /\ retval[c].kind = IF frame[c].to_list THEN "list" ELSE "ndarray"
             /\ Size(retval[c]) = HiddenWidth(SelfOf(c).model.model_id)

\* a valid call that began after a tokenization failure has returned
C6_Witness ==
    \E c \in Callers :
        /\ Done(c, "encode") /\ frame[c].fault = "none" /\ frame[c].after
        /\ outcome[c] = "returned"
        /\ Size(retval[c]) > 0

(***************************************************************************)
(* C7                                                                      *)
(***************************************************************************)
\* C7: when the pairwise model does not fail, score returns a list with
\* one score per input pair, the i-th being the model's score of the i-th
\* pair; the empty input gives the empty list.
C7_ScorePerPairInOrder ==
    \A c \in Callers :
        (Done(c, "score") /\ frame[c].fault = "none") =>
            /\ outcome[c] = "returned"
            /\ retval[c].kind = "list"
            /\ Len(retval[c].data) = Len(frame[c].pairs)
            /\ \A i \in 1..Len(frame[c].pairs) :
                  retval[c].data[i] =
                      ModelScore(SelfOf(c).model.model_id, frame[c].pairs[i])

\* a score call on several pairs with different scores has returned
C7_Witness ==
    \E c \in Callers :
        /\ Done(c, "score") /\ frame[c].fault = "none"
        /\ Len(frame[c].pairs) >= 2
        /\ outcome[c] = "returned"
        /\ retval[c].data[1] # retval[c].data[2]

(***************************************************************************)
(* C8                                                                      *)
(***************************************************************************)
\* C8: a failure of the pairwise model ends the score call in an error: no
\* value, no diagnostic record; the Scorer object stays as constructed and
\* a later score call on it returns its scores.
C8_ScoreFailurePropagates ==
    /\ \A i \in 1..Len(objects) :
          objects[i].type = "Scorer" => objects[i] = CrossEncoderInit(objects[i].args)
    /\ \A c \in Callers :
          Done(c, "score") =>
             /\ emitted[c] = <<>>
             /\ frame[c].fault = "predict" =>
                   outcome[c] = "raised" /\ retval[c] = NoValue
             /\ (frame[c].fault = "none" /\ frame[c].after) =>
                   /\ outcome[c] = "returned"
                   /\ Len(retval[c].data) = Len(frame[c].pairs)

\* a score call has failed and a call begun after a failure has returned
C8_Witness ==
    \E c, d \in Callers :
        /\ Done(c, "score") /\ frame[c].fault = "predict"
        /\ outcome[c] = "raised"
        /\ Done(d, "score") /\ frame[d].after /\ outcome[d] = "returned"
        /\ frame[c].self = frame[d].self

(***************************************************************************)
(* C9                                                                      *)
(***************************************************************************)
\* C9: two forward passes on the same Encoder instance are never in
\* progress at once.
C9_ForwardPassesSerialized ==
    \A c, d \in Callers :
        (c # d /\ pc[c] = "forward" /\ pc[d] = "forward") =>
            frame[c].self # frame[d].self

(***************************************************************************)
(* C10                                                                     *)
(***************************************************************************)
\* C10: a step loads a model of a class, or sets the class's instance, only
\* as part of a construction request for that class, and leaves the class
\* with at most one object; all other steps leave the class's objects and
\* instance alone.
C10_LoadOnlyOnOwnRequest ==
    [][ \A T \in Types :
          /\ Loads(T)' <= 1
          /\ (Built(T)' # Built(T) \/ instances'[T] # instances[T]) =>
                \E c \in Callers :
                    /\ frame[c].op = "construct" /\ frame[c].type = T
                    /\ pc[c] \in {"init", "meta_store"}
                    /\ pc'[c] # pc[c]
          /\ \A i \in Built(T) : objects'[i] = objects[i]
      ]_vars

\* both classes have their instance, two different objects, one load each
C10_Witness ==
    /\ instances["Encoder"] # Null /\ instances["Scorer"] # Null
    /\ instances["Encoder"] # instances["Scorer"]
    /\ Loads("Encoder") = 1 /\ Loads("Scorer") = 1
====
